---- MODULE Spec2Model ----
(***************************************************************************)
(* Market Sentiment Analysis Dashboard (src/app.py).                       *)
(*                                                                         *)
(* The script is re-run from top to bottom on every user interaction (one  *)
(* "render").  load_data is memoized by st.cache_data for the lifetime of  *)
(* the server process.  A render is modelled as one atomic action: the     *)
(* memoized load, the date intersection, the inner merge, the two sidebar  *)
(* selections, the window slice, the four correlations and the insights.   *)
(*                                                                         *)
(* Dates are day numbers.  Table cells are small integers; NA is a missing *)
(* cell.  A correlation coefficient is kept exactly, as a sign and the     *)
(* reduced fraction of its square, so that comparisons with 0.7 and 0.3    *)
(* are exact (the code compares binary floats).                            *)
(***************************************************************************)
EXTENDS Integers, Sequences, FiniteSets, TLC

VARIABLES cryptoDir, stockDir, cache, render, r, classified

vars == <<cryptoDir, stockDir, cache, render, r, classified>>

-----------------------------------------------------------------------------
(* Bounds of the model *)

\* rows per CSV file drawn in InitEngine
MaxRows == 2
\* files per directory
MaxFiles == 2
\* the classify grid: coefficients k / Scale, k in -Scale..Scale
Scale == 100

\* calendar days the CSV rows are dated with; 366 - {365, 180, 90, 30} are
\* the lower bounds of the four windows when the latest row is day 366
Dates == {0, 1, 186, 276, 336, 366}

\* a missing cell (pandas NaN) and a missing timestamp (pandas NaT)
NA == -1
NaT == -100000

-----------------------------------------------------------------------------
(* File names: Python str, as the sequence of its code points *)

DotCsv == <<46, 99, 115, 118>>
Name_9_csv == <<57>> \o DotCsv
Name_10_csv == <<49, 48>> \o DotCsv
Name_z_txt == <<122, 46, 116, 120, 116>>
FileNames == {Name_9_csv, Name_10_csv, Name_z_txt}

\* f.endswith('.csv')
EndsWithCsv(f) == Len(f) >= 4 /\ SubSeq(f, Len(f) - 3, Len(f)) = DotCsv

\* Python's str ordering: s < t
StrLess(s, t) ==
    \E i \in 1..(Len(t)) :
        /\ \A j \in 1..(i - 1) : j <= Len(s) /\ s[j] = t[j]
        /\ \/ i = Len(s) + 1
           \/ i <= Len(s) /\ s[i] < t[i]

\* min(files) in its place
StrMaxMutMin(files) == CHOOSE f \in files : \A g \in files : g = f \/ StrLess(f, g)
\* max(files) of a non-empty list of names
StrMax(files) == CHOOSE f \in files : \A g \in files : g = f \/ StrLess(g, f)

\* [f for f in os.listdir(dir) if f.endswith('.csv')]
CsvFiles(dir) == {e.name : e \in {x \in dir.files : EndsWithCsv(x.name)}}

ContentOf(dir, f) == (CHOOSE e \in dir.files : e.name = f).content

-----------------------------------------------------------------------------
(* Correlation coefficients *)

RECURSIVE GCD(_, _)
GCD(a, b) == IF b = 0 THEN a ELSE GCD(b, a % b)

\* float('nan'): what Series.corr returns when the coefficient is undefined
NaNCoef == [def |-> FALSE, sign |-> 0, num |-> 0, den |-> 1]

\* the number sign * sqrt(num / den), num / den reduced
Coef(sign, num, den) ==
    IF num = 0 THEN [def |-> TRUE, sign |-> 0, num |-> 0, den |-> 1]
    ELSE LET g == GCD(num, den)
         IN  [def |-> TRUE, sign |-> sign, num |-> num \div g, den |-> den \div g]

Sgn(x) == IF x > 0 THEN 1 ELSE IF x < 0 THEN -1 ELSE 0

\* the number p / q, q > 0
Ratio(p, q) == Coef(Sgn(p), p * p, q * q)

\* abs(c) > a / b; every comparison with nan is False
AbsGT(c, a, b) == c.def /\ c.num * b * b > a * a * c.den
\* c > 0
Positive(c) == c.def /\ c.sign > 0

RECURSIVE SumF(_, _)
SumF(S, f) ==
    IF S = {} THEN 0
    ELSE LET e == CHOOSE x \in S : TRUE IN f[e] + SumF(S \ {e}, f)

\* Series.corr (Pearson) of columns x and y of a table: rows with a missing
\* value in either column are dropped; nan when the rest has fewer than two
\* rows or one of the two columns does not vary
Corr(rows, x, y) ==
    LET v   == {m \in rows : m[x] # NA /\ m[y] # NA}
        n   == Cardinality(v)
        sx  == SumF(v, [m \in v |-> m[x]])
        sy  == SumF(v, [m \in v |-> m[y]])
        sxx == SumF(v, [m \in v |-> m[x] * m[x]])
        syy == SumF(v, [m \in v |-> m[y] * m[y]])
        sxy == SumF(v, [m \in v |-> m[x] * m[y]])
        cov == n * sxy - sx * sy
        vx  == n * sxx - sx * sx
        vy  == n * syy - sy * sy
    IN  IF n < 2 \/ vx = 0 \/ vy = 0 THEN NaNCoef
        ELSE Coef(Sgn(cov), cov * cov, vx * vy)

\* the largest h in lo..hi with h - 1/2 <= 100 * sqrt(num / den), by bisection
RECURSIVE Hundredths(_, _, _, _)
Hundredths(lo, hi, num, den) ==
    IF lo = hi THEN lo
    ELSE LET mid == (lo + hi + 1) \div 2
         IN  IF (2 * mid - 1) * (2 * mid - 1) * den <= 40000 * num
             THEN Hundredths(mid, hi, num, den)
             ELSE Hundredths(lo, mid - 1, num, den)

\* f"{c:.2f}": "nan", or the sign and the hundredths of abs(c) rounded to
\* the nearest (an exact tie, which a binary float cannot hold, goes up)
Fmt2(c) ==
    IF ~c.def THEN [nan |-> TRUE, minus |-> FALSE, hundredths |-> 0]
    ELSE [nan |-> FALSE, minus |-> c.sign < 0,
          hundredths |-> Hundredths(0, 100, c.num, c.den)]

\* InsightFg with the strong threshold inclusive: abs(c) >= 0.7
AbsGE(c, a, b) == c.def /\ c.num * b * b >= a * a * c.den
InsightFgMutGE(c) ==
    IF AbsGE(c, 7, 10) THEN
        [bucket |-> "Strong",
         direction |-> IF Positive(c) THEN "positive" ELSE "negative",
         value |-> Fmt2(c),
         tail |-> IF Positive(c) THEN "together" ELSE "in opposite directions"]
    ELSE IF AbsGT(c, 3, 10) THEN
        [bucket |-> "Moderate",
         direction |-> IF Positive(c) THEN "positive" ELSE "negative",
         value |-> Fmt2(c),
         tail |-> "none"]
    ELSE
        [bucket |-> "Weak", direction |-> "none", value |-> Fmt2(c),
         tail |-> "driven by different factors"]
\* the first insight (sentiment vs sentiment)
InsightFg(c) ==
    IF AbsGT(c, 7, 10) THEN
        [bucket |-> "Strong",
         direction |-> IF Positive(c) THEN "positive" ELSE "negative",
         value |-> Fmt2(c),
         tail |-> IF Positive(c) THEN "together" ELSE "in opposite directions"]
    ELSE IF AbsGT(c, 3, 10) THEN
        [bucket |-> "Moderate",
         direction |-> IF Positive(c) THEN "positive" ELSE "negative",
         value |-> Fmt2(c),
         tail |-> "none"]
    ELSE
        [bucket |-> "Weak", direction |-> "none", value |-> Fmt2(c),
         tail |-> "driven by different factors"]

\* the second insight (price vs price)
InsightPrice(c) ==
    IF AbsGT(c, 7, 10) THEN
        [bucket |-> "Strong",
         direction |-> IF Positive(c) THEN "positive" ELSE "negative",
         value |-> Fmt2(c),
         tail |-> IF Positive(c) THEN "potential market integration"
                  ELSE "a potential hedging relationship"]
    ELSE IF AbsGT(c, 3, 10) THEN
        [bucket |-> "Moderate",
         direction |-> IF Positive(c) THEN "positive" ELSE "negative",
         value |-> Fmt2(c),
         tail |-> "none"]
    ELSE
        [bucket |-> "Weak", direction |-> "none", value |-> Fmt2(c),
         tail |-> "diversification benefits"]

\* insights, in the order they are appended
Insights(fg, price) == <<InsightFg(fg), InsightPrice(price)>>

-----------------------------------------------------------------------------
(* Tables: a DataFrame is the set of its rows *)

\* input values of the CSV cells: three crypto sentiment series (one that
\* rises with the date, one that never varies, one with missing cells) and
\* one series for each other column
Profiles == {1, 2, 3}
CryptoFgOf(p, d) ==
    IF p = 1 THEN 1 + (d \div 100)
    ELSE IF p = 2 THEN 3
    ELSE IF d \in {1, 276} THEN NA
    ELSE IF d = 0 THEN 2 ELSE IF d = 186 THEN 4 ELSE IF d = 336 THEN 1 ELSE 3
BtcPriceOf(d) == 1 + (d \div 100)
StockFgOf(d) == 5 - (d \div 90)
StockPriceOf(d) == 1 + (d % 4)

DateSets == {D \in SUBSET Dates : Cardinality(D) <= MaxRows}

\* crypto CSV contents: columns date, fear_greed_index, btc_price
CryptoTables ==
    {{[date |-> d, fear_greed_index |-> CryptoFgOf(p, d), btc_price |-> BtcPriceOf(d)]
        : d \in D} : D \in DateSets, p \in Profiles}

\* stock CSV contents: columns date, fear_greed_index, price
StockTables ==
    {{[date |-> d, fear_greed_index |-> StockFgOf(d), price |-> StockPriceOf(d)]
        : d \in D} : D \in DateSets}

\* the contents of a file: a CSV table with a parsable date column, a CSV
\* without one ("nodate": the KeyError / parse error of lines 87-88), or a
\* file read_csv itself rejects ("empty": EmptyDataError)
Csv(rows) == [kind |-> "table", rows |-> rows]
NoDateCsv == [kind |-> "nodate", rows |-> {}]
EmptyFile == [kind |-> "empty", rows |-> {}]

\* timestamps: comparisons with NaT are False
TsGE(a, b) == a # NaT /\ b # NaT /\ a >= b
TsLE(a, b) == a # NaT /\ b # NaT /\ a <= b
TsGT(a, b) == a # NaT /\ b # NaT /\ a > b
TsLT(a, b) == a # NaT /\ b # NaT /\ a < b
TsSub(a, days) == IF a = NaT THEN NaT ELSE a - days

\* Python's max(a, b) and min(a, b): the first argument unless the second
\* is strictly greater (smaller)
PyMax(a, b) == IF TsGT(b, a) THEN b ELSE a
PyMin(a, b) == IF TsLT(b, a) THEN b ELSE a

\* df['date'].min() and .max(); NaT on an empty frame
SeriesMin(rows) ==
    IF rows = {} THEN NaT
    ELSE (CHOOSE x \in rows : \A y \in rows : x.date <= y.date).date
SeriesMax(rows) ==
    IF rows = {} THEN NaT
    ELSE (CHOOSE x \in rows : \A y \in rows : x.date >= y.date).date

\* df[(df['date'] >= min_date) & (df['date'] <= max_date)]
Between(rows, lo, hi) == {x \in rows : TsGE(x.date, lo) /\ TsLE(x.date, hi)}

MergedRow(c, s) ==
    [date |-> c.date,
     fear_greed_index_crypto |-> c.fear_greed_index,
     btc_price |-> c.btc_price,
     fear_greed_index_stock |-> s.fear_greed_index,
     price |-> s.price]

\* the same with how='left'
MergeMutLeft(left, right) ==
    UNION {{MergedRow(c, s) : s \in {x \in right : x.date = c.date}} : c \in left}
    \cup {MergedRow(c, [fear_greed_index |-> NA, price |-> NA])
             : c \in {x \in left : \A y \in right : y.date # x.date}}
\* pd.merge(left, right, on='date', how='inner', suffixes=('_crypto', '_stock'))
Merge(left, right) ==
    UNION {{MergedRow(c, s) : s \in {x \in right : x.date = c.date}} : c \in left}

\* the day offsets of the four bounded correlation periods
LastYearDays == 365
Last6MonthsDays == 180
Last3MonthsDays == 90
LastMonthDays == 30

Periods == {"All Time", "Last 1 Year", "Last 6 Months", "Last 3 Months", "Last 1 Month"}

Since(rows, days) == {m \in rows : TsGE(m.date, TsSub(SeriesMax(rows), days))}
SinceMutGT(rows, days) == {m \in rows : TsGT(m.date, TsSub(SeriesMax(rows), days))}

\* the same with the bound excluded
SelectWindowMutGT(merged_df, correlation_period) ==
    IF correlation_period = "Last 1 Year" THEN SinceMutGT(merged_df, LastYearDays)
    ELSE IF correlation_period = "Last 6 Months" THEN SinceMutGT(merged_df, Last6MonthsDays)
    ELSE IF correlation_period = "Last 3 Months" THEN SinceMutGT(merged_df, Last3MonthsDays)
    ELSE IF correlation_period = "Last 1 Month" THEN SinceMutGT(merged_df, LastMonthDays)
    ELSE merged_df
\* corr_data, by correlation_period
SelectWindow(merged_df, correlation_period) ==
    IF correlation_period = "Last 1 Year" THEN Since(merged_df, LastYearDays)
    ELSE IF correlation_period = "Last 6 Months" THEN Since(merged_df, Last6MonthsDays)
    ELSE IF correlation_period = "Last 3 Months" THEN Since(merged_df, Last3MonthsDays)
    ELSE IF correlation_period = "Last 1 Month" THEN Since(merged_df, LastMonthDays)
    ELSE merged_df

\* what st.sidebar.date_input returns: a (start, end) pair inside the merged
\* table's date bounds, or a shorter tuple while the user has picked one end
\* only.  Endpoints are taken at row dates.
NoRange == [len |-> 1, start |-> NaT, end |-> NaT]
DateRanges(merged_df) ==
    {[len |-> 2, start |-> a.date, end |-> b.date]
        : <<a, b>> \in {p \in merged_df \X merged_df : p[1].date <= p[2].date}}
    \cup {NoRange}

\* merged_filtered, by date_range
FilterRange(merged_df, date_range) ==
    IF date_range.len = 2
    THEN {m \in merged_df : m.date >= date_range.start /\ m.date <= date_range.end}
    ELSE merged_df

-----------------------------------------------------------------------------
(* load_data *)

\* a directory: missing, or the set of its files (name, content)
MissingDir == [exists |-> FALSE, files |-> {}]
EmptyDir == [exists |-> TRUE, files |-> {}]

\* None, as max(...) if ... else None yields it: a falsy name
None == <<>>

LoadResult(raised, exc, none, cdf, sdf, elements, rc, rs) ==
    [raised |-> raised, exc |-> exc, none |-> none, crypto_df |-> cdf,
     stock_df |-> sdf, elements |-> elements, readCrypto |-> rc, readStock |-> rs]

Raise(exc, rc, rs) == LoadResult(TRUE, exc, FALSE, {}, {}, <<>>, rc, rs)

\* the body of load_data, run against the two directories
LoadData(cdir, sdir) ==
    IF ~cdir.exists THEN Raise("FileNotFoundError", {}, {})
    ELSE LET crypto_files == CsvFiles(cdir)
             latest_crypto_file ==
                 IF crypto_files # {} THEN StrMax(crypto_files) ELSE None
    IN  IF ~sdir.exists THEN Raise("FileNotFoundError", {}, {})
    ELSE LET stock_files == CsvFiles(sdir)
             latest_stock_file ==
                 IF stock_files # {} THEN StrMax(stock_files) ELSE None
    IN  IF latest_crypto_file # None /\ latest_stock_file # None THEN
            LET c == ContentOf(cdir, latest_crypto_file)
                s == ContentOf(sdir, latest_stock_file)
            IN  IF c.kind = "empty"
                    THEN Raise("EmptyDataError", {latest_crypto_file}, {})
                ELSE IF s.kind = "empty"
                    THEN Raise("EmptyDataError", {latest_crypto_file}, {latest_stock_file})
                ELSE IF c.kind = "nodate" \/ s.kind = "nodate"
                    THEN Raise("KeyError", {latest_crypto_file}, {latest_stock_file})
                ELSE LoadResult(FALSE, "", FALSE, c.rows, s.rows, <<>>,
                                {latest_crypto_file}, {latest_stock_file})
        ELSE LoadResult(FALSE, "", TRUE, {}, {}, <<"Data files not found!">>, {}, {})

\* st.cache_data: nothing memoized yet, or the returned value together with
\* the st elements the body emitted, which a hit replays
NoCache == [set |-> FALSE, none |-> FALSE, crypto_df |-> {}, stock_df |-> {},
            elements |-> <<>>]
Memo(res) == [set |-> TRUE, none |-> res.none, crypto_df |-> res.crypto_df,
              stock_df |-> res.stock_df, elements |-> res.elements]

\* load_data without the decorator
CachedLoadMutNoCache(memo, cdir, sdir) == LoadData(cdir, sdir)
\* load_data() as the script calls it, under @st.cache_data
CachedLoad(memo, cdir, sdir) ==
    IF memo.set
    THEN LoadResult(FALSE, "", memo.none, memo.crypto_df, memo.stock_df,
                    memo.elements, {}, {})
    ELSE LoadData(cdir, sdir)

-----------------------------------------------------------------------------
(* One run of the script *)

EngineSteps == {"intersect", "merge", "window", "correlate", "classify"}

\* no render has completed in this process against the present directories
IdleRender ==
    [done |-> FALSE, executed |-> FALSE, readCrypto |-> {}, readStock |-> {},
     outcome |-> "idle", messages |-> <<>>, steps |-> {},
     loaded |-> FALSE, crypto_df |-> {}, stock_df |-> {},
     min_date |-> NaT, max_date |-> NaT, merged_df |-> {},
     date_range |-> NoRange, correlation_period |-> "All Time",
     merged_filtered |-> {}, corr_data |-> {},
     correlation_fg |-> NaNCoef, correlation_price |-> NaNCoef,
     correlation_price_fg_crypto |-> NaNCoef,
     correlation_price_fg_stock |-> NaNCoef,
     fmt |-> <<>>, insights |-> <<>>]

\* lines 99-100
MinDate(cdf, sdf) == PyMax(SeriesMin(cdf), SeriesMin(sdf))
MaxDate(cdf, sdf) == PyMin(SeriesMax(cdf), SeriesMax(sdf))

\* lines 99-112: merged_df
Overview(cdf, sdf) ==
    Merge(Between(cdf, MinDate(cdf, sdf), MaxDate(cdf, sdf)),
          Between(sdf, MinDate(cdf, sdf), MaxDate(cdf, sdf)))

\* the correlations computed on the chart's subset
CorrSourceMutFiltered(merged_df, merged_filtered) == merged_filtered
\* the frame the correlation period slices: merged_df, not merged_filtered
CorrSource(merged_df, merged_filtered) == merged_df

\* the body of `if crypto_df is not None and stock_df is not None:`;
\* widgetRaises: st.sidebar.date_input raised on its arguments
Engine(base, cdf, sdf, date_range, correlation_period, widgetRaises) ==
    LET merged_df == Overview(cdf, sdf)
        loaded == [base EXCEPT !.loaded = TRUE, !.crypto_df = cdf, !.stock_df = sdf,
                               !.min_date = MinDate(cdf, sdf),
                               !.max_date = MaxDate(cdf, sdf),
                               !.merged_df = merged_df]
    IN  IF widgetRaises THEN
            [loaded EXCEPT !.outcome = "exception",
                           !.messages = base.messages \o <<"date_input exception">>,
                           !.steps = {"intersect", "merge"}]
        ELSE
            LET merged_filtered == FilterRange(merged_df, date_range)
                corr_data == SelectWindow(CorrSource(merged_df, merged_filtered),
                                          correlation_period)
                fg == Corr(corr_data, "fear_greed_index_crypto", "fear_greed_index_stock")
                pfc == Corr(corr_data, "btc_price", "fear_greed_index_crypto")
                pfs == Corr(corr_data, "price", "fear_greed_index_stock")
                pp == Corr(corr_data, "btc_price", "price")
            IN  [loaded EXCEPT !.outcome = "ok",
                               !.steps = EngineSteps,
                               !.date_range = date_range,
                               !.correlation_period = correlation_period,
                               !.merged_filtered = merged_filtered,
                               !.corr_data = corr_data,
                               !.correlation_fg = fg,
                               !.correlation_price = pp,
                               !.correlation_price_fg_crypto = pfc,
                               !.correlation_price_fg_stock = pfs,
                               !.fmt = <<Fmt2(fg), Fmt2(pp), Fmt2(pfc), Fmt2(pfs)>>,
                               !.insights = Insights(fg, pp)]

\* line 97 with the None check dropped
LoadedOkMutAlways(res) == ~res.raised
\* line 97: crypto_df is not None and stock_df is not None
LoadedOk(res) == ~res.raised /\ ~res.none

\* the script from line 95 on, given what load_data() did
Script(res, hit, date_range, correlation_period, widgetRaises) ==
    LET base == [IdleRender EXCEPT !.done = TRUE, !.executed = ~hit,
                                   !.readCrypto = res.readCrypto,
                                   !.readStock = res.readStock,
                                   !.messages = res.elements]
    IN  IF res.raised THEN
            [base EXCEPT !.outcome = "exception", !.messages = <<res.exc>>]
        ELSE IF ~LoadedOk(res) THEN
            [base EXCEPT !.outcome = "notfound",
                         !.messages = res.elements \o
                             <<"Failed to load data. Please check if the data files exist.">>]
        ELSE Engine(base, res.crypto_df, res.stock_df, date_range,
                    correlation_period, widgetRaises)

\* One user interaction: the whole script runs.  A rerun of a page that
\* shows the dashboard is triggered by one widget: the other keeps its
\* value; a page opened afresh may carry any selections.  date_input is
\* handed NaT bounds when merged_df is empty; what it does with them is
\* outside this code, so both outcomes (it raises, it returns) are kept.
Render ==
    LET hit == cache.set
        res == CachedLoad(cache, cryptoDir, stockDir)
        reaches == LoadedOk(res)
        merged_df == Overview(res.crypto_df, res.stock_df)
    IN  /\ \E date_range \in (IF reaches THEN DateRanges(merged_df) ELSE {NoRange}),
              correlation_period \in (IF reaches THEN Periods ELSE {"All Time"}),
              widgetRaises \in (IF reaches /\ merged_df = {} THEN BOOLEAN ELSE {FALSE}) :
              /\ \/ render.outcome # "ok"
                 \/ date_range = render.date_range
                 \/ correlation_period = render.correlation_period
              /\ render' = Script(res, hit, date_range, correlation_period, widgetRaises)
        /\ cache' = IF hit \/ res.raised THEN cache ELSE Memo(res)
        /\ UNCHANGED <<cryptoDir, stockDir, r, classified>>

-----------------------------------------------------------------------------
(* The environment: the two data directories and the server process *)

\* files the scraper drops into the directories between interactions
CryptoNew == {[date |-> 366, fear_greed_index |-> 4, btc_price |-> BtcPriceOf(366)]}
CryptoOld == {[date |-> 0, fear_greed_index |-> 1, btc_price |-> BtcPriceOf(0)]}
StockNew == {[date |-> 366, fear_greed_index |-> StockFgOf(366), price |-> StockPriceOf(366)]}
StockOld == {[date |-> 0, fear_greed_index |-> StockFgOf(0), price |-> StockPriceOf(0)]}

ContentsFor(which, name) ==
    IF ~EndsWithCsv(name) THEN {EmptyFile}
    ELSE IF which = "crypto" THEN {Csv(CryptoNew), Csv(CryptoOld), NoDateCsv, EmptyFile}
    ELSE {Csv(StockNew), Csv(StockOld), NoDateCsv, EmptyFile}

DirOf(which) == IF which = "crypto" THEN cryptoDir ELSE stockDir

SetDir(which, d) ==
    /\ IF which = "crypto"
       THEN cryptoDir' = d /\ UNCHANGED stockDir
       ELSE stockDir' = d /\ UNCHANGED cryptoDir
    /\ render' = IdleRender
    /\ UNCHANGED <<cache, r, classified>>

AddFile(which, name, content) ==
    /\ DirOf(which).exists
    /\ \A e \in DirOf(which).files : e.name # name
    /\ Cardinality(DirOf(which).files) < MaxFiles
    /\ SetDir(which, [DirOf(which) EXCEPT
                         !.files = @ \cup {[name |-> name, content |-> content]}])

RemoveFile(which, name) ==
    /\ \E e \in DirOf(which).files : e.name = name
    /\ SetDir(which, [DirOf(which) EXCEPT !.files = {e \in @ : e.name # name}])

RemoveDir(which) ==
    /\ DirOf(which) = EmptyDir
    /\ SetDir(which, MissingDir)

MakeDir(which) ==
    /\ DirOf(which) = MissingDir
    /\ SetDir(which, EmptyDir)

\* the server process is stopped and started again: the memo is gone
Restart ==
    /\ cache.set \/ render.done
    /\ cache' = NoCache
    /\ render' = IdleRender
    /\ UNCHANGED <<cryptoDir, stockDir, r, classified>>

Init ==
    /\ cryptoDir = EmptyDir
    /\ stockDir = EmptyDir
    /\ cache = NoCache
    /\ render = IdleRender
    /\ r = NaNCoef
    /\ classified = <<>>

Next ==
    \/ Render
    \/ Restart
    \/ \E which \in {"crypto", "stock"} :
          \/ \E name \in FileNames : \E content \in ContentsFor(which, name) :
                AddFile(which, name, content)
          \/ \E name \in FileNames : RemoveFile(which, name)
          \/ RemoveDir(which)
          \/ MakeDir(which)

Spec == Init /\ [][Next]_vars

-----------------------------------------------------------------------------
(* The engine over every pair of bounded tables: a process that has loaded *)
(* one CSV from each directory, and the user's interactions with it        *)

InitEngine ==
    /\ \E c \in CryptoTables, s \in StockTables :
          /\ cryptoDir = [exists |-> TRUE,
                          files |-> {[name |-> Name_10_csv, content |-> Csv(c)]}]
          /\ stockDir = [exists |-> TRUE,
                         files |-> {[name |-> Name_10_csv, content |-> Csv(s)]}]
    /\ cache = Memo(LoadData(cryptoDir, stockDir))
    /\ render = IdleRender
    /\ r = NaNCoef
    /\ classified = <<>>

NextEngine == Render

SpecEngine == InitEngine /\ [][NextEngine]_vars

-----------------------------------------------------------------------------
(* Lines 191-205 alone, over a grid of coefficients *)

Grid == {Ratio(k, Scale) : k \in (0 - Scale)..Scale} \cup {NaNCoef}

InitClassify ==
    /\ cryptoDir = EmptyDir
    /\ stockDir = EmptyDir
    /\ cache = NoCache
    /\ render = IdleRender
    /\ r \in Grid
    /\ classified = <<>>

Classify ==
    /\ classified = <<>>
    /\ classified' = Insights(r, r)
    /\ UNCHANGED <<cryptoDir, stockDir, cache, render, r>>

SpecClassify == InitClassify /\ [][Classify]_vars

-----------------------------------------------------------------------------
(* Claims *)

DirEmptyOrMissing(dir) == ~dir.exists \/ dir.files = {}

LoadFailure ==
    /\ render.outcome \in {"notfound", "exception"}
    /\ ~render.loaded
    /\ Len(render.messages) >= 1
    /\ render.steps = {}

\* C1, as stated: in every render, if either source directory is empty or
\* missing, the load fails, an error is shown and no Engine step runs.
C1_EveryRender ==
    (render.done /\ (DirEmptyOrMissing(cryptoDir) \/ DirEmptyOrMissing(stockDir)))
        => LoadFailure

\* C1, amended: in every render in which the body of load_data runs (no
\* memoized result is replayed), if either source directory is empty or
\* missing, the load fails, an error is shown and no Engine step runs.
C1_WhenLoadRuns ==
    (render.done /\ render.executed
        /\ (DirEmptyOrMissing(cryptoDir) \/ DirEmptyOrMissing(stockDir)))
        => LoadFailure

C1_Witness ==
    /\ render.done /\ render.executed
    /\ cryptoDir.files # {} /\ stockDir = EmptyDir
    /\ render.outcome = "notfound"

\* C2: when the loaded tables' date ranges do not overlap (minDate >
\* maxDate), the overview fails instead of producing a merged table, and no
\* window selection, correlation or insight is computed.
C2_NoOverlapFails ==
    (render.done /\ render.loaded /\ TsGT(render.min_date, render.max_date))
        => /\ render.outcome # "ok"
           /\ render.steps \cap {"merge", "window", "correlate", "classify"} = {}

\* C3: an undefined coefficient (fewer than two valid pairs, or a series
\* that does not vary) is not put into the strong, moderate or weak bucket.
C3_UndefinedNotBucketed ==
    render.outcome = "ok" =>
        /\ ~render.correlation_fg.def =>
              render.insights[1].bucket \notin {"Strong", "Moderate", "Weak"}
        /\ ~render.correlation_price.def =>
              render.insights[2].bucket \notin {"Strong", "Moderate", "Weak"}

\* C4: a render that ends in an error presents exactly one error message.
C4_OneMessage ==
    (render.done /\ render.outcome # "ok") => Len(render.messages) = 1

\* C5: a defined coefficient is strong iff |r| > 0.7, moderate iff
\* 0.3 < |r| <= 0.7, weak iff |r| <= 0.3; strong and moderate texts say
\* positive when r > 0 and negative otherwise, the weak text no direction.
C5_Buckets ==
    (classified # <<>> /\ r.def) =>
        \A i \in 1..2 :
            LET t == classified[i]
                over07 == 100 * r.num > 49 * r.den
                over03 == 100 * r.num > 9 * r.den
            IN  /\ t.bucket \in {"Strong", "Moderate", "Weak"}
                /\ t.bucket = "Strong" <=> over07
                /\ t.bucket = "Moderate" <=> (over03 /\ ~over07)
                /\ t.bucket = "Weak" <=> ~over03
                /\ t.bucket \in {"Strong", "Moderate"} =>
                      t.direction = IF r.sign > 0 THEN "positive" ELSE "negative"
                /\ t.bucket = "Weak" => t.direction = "none"

C5_Witness ==
    /\ r = Ratio(-7, 10)
    /\ classified # <<>>
    /\ classified[1].bucket = "Moderate" /\ classified[1].direction = "negative"
    /\ classified[2].bucket = "Moderate"

UniqueDates(rows) == \A x, y \in rows : x.date = y.date => x = y
DatesOf(rows) == {x.date : x \in rows}

\* C6: with unique dates per source, the merged table has a row for date d
\* iff d is a date of both tables, exactly one row per such date, and the
\* row carries that date's crypto fields and stock fields unchanged.
C6_InnerJoin ==
    (render.loaded /\ UniqueDates(render.crypto_df) /\ UniqueDates(render.stock_df)) =>
        /\ DatesOf(render.merged_df) =
               DatesOf(render.crypto_df) \cap DatesOf(render.stock_df)
        /\ UniqueDates(render.merged_df)
        /\ \A m \in render.merged_df :
              /\ [date |-> m.date, fear_greed_index |-> m.fear_greed_index_crypto,
                  btc_price |-> m.btc_price] \in render.crypto_df
              /\ [date |-> m.date, fear_greed_index |-> m.fear_greed_index_stock,
                  price |-> m.price] \in render.stock_df

C6_Witness ==
    /\ render.loaded
    /\ render.merged_df # {}
    /\ \E c \in render.crypto_df :
          /\ c.date \notin DatesOf(render.stock_df)
          /\ TsGE(c.date, render.min_date) /\ TsLE(c.date, render.max_date)

\* C7: 'All Time' selects the whole merged table; 'Last 1 Year', 'Last 6
\* Months', 'Last 3 Months', 'Last 1 Month' select exactly the rows dated
\* no earlier than the merged table's latest date minus 365, 180, 90, 30
\* days, the row on the bound included.
C7_Windows ==
    render.outcome = "ok" =>
        LET p == render.correlation_period
            days == IF p = "Last 1 Year" THEN 365
                    ELSE IF p = "Last 6 Months" THEN 180
                    ELSE IF p = "Last 3 Months" THEN 90
                    ELSE 30
        IN  IF p = "All Time" THEN render.corr_data = render.merged_df
            ELSE render.corr_data =
                   {m \in render.merged_df :
                       \A n \in render.merged_df : m.date >= n.date - days}

C7_Witness ==
    /\ render.outcome = "ok"
    /\ render.correlation_period = "Last 6 Months"
    /\ \E m, n \in render.corr_data : m.date = n.date - 180

\* C8: between two renders of the same merged table, a change of the date
\* range alone leaves the four correlations and the insights as they were, a
\* change of the correlation period alone leaves the chart subset as it
\* was, and the merged table is the same in both.
C8_Independent ==
    [][(render.outcome = "ok" /\ render'.outcome = "ok" /\ cache' = cache) =>
          /\ render'.merged_df = render.merged_df
          /\ render'.correlation_period = render.correlation_period =>
                /\ render'.correlation_fg = render.correlation_fg
                /\ render'.correlation_price = render.correlation_price
                /\ render'.correlation_price_fg_crypto = render.correlation_price_fg_crypto
                /\ render'.correlation_price_fg_stock = render.correlation_price_fg_stock
                /\ render'.fmt = render.fmt
                /\ render'.insights = render.insights
          /\ render'.date_range = render.date_range =>
                render'.merged_filtered = render.merged_filtered]_vars

C8_Witness ==
    /\ render.outcome = "ok"
    /\ render.correlation_period = "All Time"
    /\ render.date_range.len = 2
    /\ render.merged_filtered # render.merged_df
    /\ render.correlation_fg.def

\* C9: once load_data has returned, its result stays memoized whatever
\* happens to the directories, every later render gets that result without
\* opening a file, and only a restart of the process drops it.
C9_FixedCache ==
    [][cache.set =>
          /\ \/ cache' = cache
             \/ /\ cache' = NoCache /\ render' = IdleRender
                /\ cryptoDir' = cryptoDir /\ stockDir' = stockDir
          /\ render'.done =>
                /\ ~render'.executed
                /\ render'.readCrypto = {} /\ render'.readStock = {}
                /\ render'.loaded = ~cache.none
                /\ render'.crypto_df = cache.crypto_df
                /\ render'.stock_df = cache.stock_df]_vars

C9_Witness ==
    /\ render.done /\ ~render.executed /\ render.loaded
    /\ render.crypto_df # {}
    /\ cryptoDir = EmptyDir

IsLexMax(f, names) == f \in names /\ \A g \in names : g = f \/ StrLess(g, f)
AllNames(dir) == {e.name : e \in dir.files}
CsvNames(dir) == {f \in AllNames(dir) : EndsWithCsv(f)}

\* C10, as stated: of every non-empty directory the Loader reads exactly
\* one file, the lexicographically maximal file name of the directory.
C10_MaxOfAllFiles ==
    render.done =>
        /\ cryptoDir.files # {} =>
              \E f \in AllNames(cryptoDir) :
                  IsLexMax(f, AllNames(cryptoDir)) /\ render.readCrypto = {f}
        /\ stockDir.files # {} =>
              \E f \in AllNames(stockDir) :
                  IsLexMax(f, AllNames(stockDir)) /\ render.readStock = {f}

\* C10, amended: when the body of load_data runs and both directories hold
\* a file named *.csv, the Loader reads exactly one file of the crypto
\* directory and, unless the CSV reader rejects that file, exactly one of
\* the stock directory, each the lexicographically maximal *.csv name of its
\* directory; in every other render it reads no file.
C10_MaxOfCsvFiles ==
    render.done =>
        IF render.executed /\ CsvNames(cryptoDir) # {} /\ CsvNames(stockDir) # {}
        THEN /\ \E f \in CsvNames(cryptoDir) :
                    /\ IsLexMax(f, CsvNames(cryptoDir))
                    /\ render.readCrypto = {f}
                    /\ \E g \in CsvNames(stockDir) :
                          /\ IsLexMax(g, CsvNames(stockDir))
                          /\ render.readStock =
                                 IF ContentOf(cryptoDir, f).kind = "empty" THEN {} ELSE {g}
        ELSE render.readCrypto = {} /\ render.readStock = {}

C10_Witness ==
    /\ render.done /\ render.executed /\ render.loaded
    /\ AllNames(cryptoDir) = {Name_9_csv, Name_10_csv}
    /\ render.readCrypto = {Name_9_csv}
    /\ render.crypto_df = ContentOf(cryptoDir, Name_9_csv).rows
    /\ render.crypto_df # ContentOf(cryptoDir, Name_10_csv).rows

\* the join taken from the stock side: pd.merge(stock_filtered,
\* crypto_filtered, on='date', how='inner', suffixes=('_stock', '_crypto')),
\* the date bounds computed with the stock table first; a row is the record
\* of its named cells, so column order is not part of it
StockCryptoJoin(sdf, cdf) ==
    LET lo == PyMax(SeriesMin(sdf), SeriesMin(cdf))
        hi == PyMin(SeriesMax(sdf), SeriesMax(cdf))
        left == {x \in sdf : TsGE(x.date, lo) /\ TsLE(x.date, hi)}
        right == {x \in cdf : TsGE(x.date, lo) /\ TsLE(x.date, hi)}
    IN  UNION {{[date |-> sr.date,
                 fear_greed_index_stock |-> sr.fear_greed_index,
                 price |-> sr.price,
                 fear_greed_index_crypto |-> cr.fear_greed_index,
                 btc_price |-> cr.btc_price]
                  : cr \in {x \in right : x.date = sr.date}} : sr \in left}

\* C11: joining crypto with stock yields the same set of rows (same dates,
\* same crypto cells, same stock cells) as joining stock with crypto.
C11_JoinCommutes ==
    render.loaded =>
        render.merged_df = StockCryptoJoin(render.stock_df, render.crypto_df)

C11_Witness ==
    /\ render.loaded
    /\ render.merged_df # {}
    /\ DatesOf(render.crypto_df) \ DatesOf(render.stock_df) # {}
    /\ DatesOf(render.stock_df) \ DatesOf(render.crypto_df) # {}
    /\ render.merged_df = StockCryptoJoin(render.stock_df, render.crypto_df)

====
